---- MODULE Spec2Model ----
(***************************************************************************)
(* fas-rs: the frequency scheduler of one CPU cluster (schedule.rs), the   *)
(* cycle-diff sampler (cycles.rs) and the PID gain evolution primitives    *)
(* (evolution.rs), modelled as state machines.                             *)
(*                                                                         *)
(* Cycles values are integers in Hz, as in cpu_cycles_reader::Cycles.      *)
(* Real numbers (f64) are modelled exactly: positions by integers and      *)
(* halves, filter values by normalised rationals <<num, den>>, PID gains   *)
(* by integers in units of 10^-6, frame times by integers in nanoseconds   *)
(* and fitness scores by normalised rationals.                             *)
(***************************************************************************)
EXTENDS Integers, Sequences, FiniteSets, TLC

VARIABLES
    raw_freqs,       \* contents of scaling_available_frequencies (kHz), in file order
    table,           \* Schedule.table (Hz)
    pos,             \* Schedule.pos
    burst,           \* Schedule.burst
    smooth,          \* Schedule.smooth: the SMA window of positions, oldest first
    touch_listener,  \* Schedule.touch_listener is Some
    elapsed,         \* Schedule.touch_timer.elapsed(), in ticks, saturated above slide_timer
    target_diff,     \* shared cell, written by the external PID loop (Hz)
    cur_cycles,      \* shared cell, written by Schedule::write (Hz)
    pool,            \* control-node writes submitted by the latest operation
    config,          \* CONFIG: touch_boost and slide_boost (table-index bumps)
    clamp,           \* a pos_clamp call on its own: arguments and result
    panicked,        \* "no", or the reason the cluster's loop has panicked
    lastOp,          \* the operation that produced the current state
    diff_arg,        \* <<diff>> when that operation was run(diff), else <<>>
    hist,            \* kinds of the two latest state-changing scheduler steps
    wr,              \* the latest write(): smoothed index, boost, percentage, index
    since_slide,     \* ticks since a write() saw an active slide, saturated
    streak,          \* the latest run() comparisons: kind and how many in a row
    reader,          \* DiffReader: filter state and the latest returned diff
    params,          \* PidParams handed to / returned by mutate_params
    fit,             \* two evaluate_fitness calls: arguments and results
    db,              \* rows of the pid_params table
    ld,              \* a load_pid_params call in progress
    log              \* per package: the latest and all saved PidParams

vars == <<raw_freqs, table, pos, burst, smooth, touch_listener, elapsed,
          target_diff, cur_cycles, pool, config, panicked, lastOp, diff_arg,
          hist, wr, since_slide, streak, clamp, reader, params, fit, db, ld, log>>

dbVars == <<db, ld, log>>

schedVars == <<raw_freqs, table, pos, burst, smooth, touch_listener, elapsed,
               target_diff, cur_cycles, pool, config, panicked, lastOp, diff_arg,
               hist, wr, since_slide, streak>>

(***************************************************************************)
(* Bounds of the model.                                                    *)
(***************************************************************************)
MaxLen == 4          \* longest frequency table the scheduler runs on
MaxClampLen == 5     \* longest frequency table pos_clamp is applied to
MaxReqOver == 3      \* how far a requested index may lie above the table
SlideTimer == 1      \* configured slide_timer, in ticks
MaxWin == 3          \* largest EMA_WIN
MaxSamples == 5      \* read_diff calls per DiffReader
MaxFps == 2          \* largest target fps handed to evaluate_fitness
MaxHist == 31        \* longest control history handed to evaluate_fitness

(***************************************************************************)
(* Program constants.                                                      *)
(***************************************************************************)
BURST_DEFAULT == 0
BURST_MAX == 2
SMOOTH_COUNT == 2

Min(a, b) == IF a <= b THEN a ELSE b
Max(a, b) == IF a >= b THEN a ELSE b

(***************************************************************************)
(* cpu_cycles_reader::Cycles conversions (raw value in Hz).                *)
(***************************************************************************)
from_khz(k) == k * 1000
from_mhz(m) == m * 1000000
as_khz(c) == IF c >= 0 THEN c \div 1000 ELSE -((-c) \div 1000)

(***************************************************************************)
(* f64::round of the rational n/d (d > 0): halves away from zero.          *)
(***************************************************************************)
RoundDiv(n, d) == IF n >= 0 THEN (2 * n + d) \div (2 * d)
                            ELSE -((2 * (-n) + d) \div (2 * d))

(***************************************************************************)
(* Vec::sort_unstable on the table: the ascending rearrangement.           *)
(***************************************************************************)
RECURSIVE InsertSorted(_, _)
InsertSorted(x, s) ==
    IF s = <<>> THEN <<x>>
    ELSE IF x <= Head(s) THEN <<x>> \o s
    ELSE <<Head(s)>> \o InsertSorted(x, Tail(s))

RECURSIVE SortAsc(_)
SortAsc(s) == IF s = <<>> THEN <<>> ELSE InsertSorted(Head(s), SortAsc(Tail(s)))

sort_unstable_unsorted(s) == s
sort_unstable(s) == SortAsc(s)

(***************************************************************************)
(* Schedule::new, lines 62-66: parse the file into Cycles.                 *)
(***************************************************************************)
ParseTable(khz) == [i \in 1..Len(khz) |-> from_khz(khz[i])]

(***************************************************************************)
(* yata SMA over the position: a window of SMOOTH_COUNT values, filled     *)
(* with the initial value; next() drops the oldest; peek() is the mean.    *)
(***************************************************************************)
SMA_new(length, value) == [i \in 1..length |-> value]
SMA_next(w, value) == Tail(w) \o <<value>>

RECURSIVE SeqSum(_)
SeqSum(s) == IF s = <<>> THEN 0 ELSE Head(s) + SeqSum(Tail(s))

\* Schedule::smoothed_pos: peek().round().max(0.0) as usize, min(len - 1).
smoothed_pos_trunc(w, len) == Min(Max(SeqSum(w) \div Len(w), 0), len - 1)
smoothed_pos(w, len) == Min(Max(RoundDiv(SeqSum(w), Len(w)), 0), len - 1)

(***************************************************************************)
(* Schedule::run, the three branches of the comparison.                    *)
(***************************************************************************)
EffTargetUnclamped(t, c) == t
EffTarget(t, c) == Min(t, c)

StepDownTwo(p) == IF p >= 2 THEN p - 2 ELSE 0
StepDown(p) == IF p >= 1 THEN p - 1 ELSE 0          \* saturating_sub(1)

StepUpUncapped(p, b, len) == p + b
StepUpByOne(p, b, len) == Min(p + 1, len - 1)
StepUp(p, b, len) == Min(p + b, len - 1)

BurstUpToMax(b) == BURST_MAX
BurstUpToOne(b) == Min(1, b + 1)
BurstUp(b) == Min(BURST_MAX, b + 1)

(***************************************************************************)
(* Schedule::pos_clamp.                                                    *)
(***************************************************************************)
PerValidU8(per) == per <= 255
PerValid(per) == per <= 100

MaxPosFloor(len, per) == Min(Max(((len - 1) * per) \div 100, 0), len - 1)
MaxPos(len, per) == Min(Max(RoundDiv((len - 1) * per, 100), 0), len - 1)

pos_clamp_uncapped(p, len, per) == Min(Max(p, 0), len - 1)
pos_clamp(p, len, per) == Min(Max(p, 0), MaxPos(len, per))

(***************************************************************************)
(* Inputs of the scheduler.                                                *)
(***************************************************************************)
FreqStepKHz == 100 * 1000

\* Files listing n frequencies: in descending order, and with a repeated entry.
DescFreqs(n) == [i \in 1..n |-> (n + 1 - i) * FreqStepKHz]
DupFreqs(n) == [i \in 1..n |-> Max(n - i, 1) * FreqStepKHz]
RawTables(maxLen) == {DescFreqs(n) : n \in 1..maxLen} \cup {DupFreqs(n) : n \in 2..Min(3, maxLen)}

Targets == {-from_mhz(1), from_mhz(200), from_mhz(1000)}   \* stores of the PID loop
Diffs == {-1, 0, from_mhz(200), from_mhz(900)}              \* run(diff) arguments
Pers == {50, 100, 101}                                      \* max_freq_per node values
Configs == {[touch_boost |-> 1, slide_boost |-> 2],
            [touch_boost |-> 0, slide_boost |-> 5]}

\* Without a touch listener no boost is ever applied: one configuration is drawn.
ConfigsFor(listener) ==
    IF listener THEN Configs ELSE {c \in Configs : c.touch_boost = 1}

(***************************************************************************)
(* Schedule::new                                                           *)
(***************************************************************************)
new(raws) ==
    /\ raw_freqs \in raws
    /\ table = sort_unstable(ParseTable(raw_freqs))
    /\ pos = Len(table) - 1
    /\ burst = BURST_DEFAULT
    /\ smooth = SMA_new(SMOOTH_COUNT, pos)
    /\ touch_listener \in BOOLEAN
    /\ elapsed = 0
    /\ target_diff = from_mhz(200)
    /\ cur_cycles = table[Len(table)]
    /\ pool = <<>>
    /\ config \in ConfigsFor(touch_listener)
    /\ panicked = "no"
    /\ lastOp = "new"
    /\ diff_arg = <<>>
    /\ hist = <<"none", "new">>
    /\ wr = <<>>
    /\ since_slide = SlideTimer + 1
    /\ streak = [kind |-> "none", n |-> 0]

(***************************************************************************)
(* Schedule::write, on the smoothing window sm the caller has just set;    *)
(* gov is what the caller has already submitted to the pool.               *)
(***************************************************************************)
write_with(sm, gov, slide, tap, per) ==
    LET touch_boost == config.touch_boost
        slide_boost == config.slide_boost
        ori_pos == smoothed_pos(sm, Len(table))
        onSlide == touch_listener /\ (slide \/ elapsed <= SlideTimer)
        onTouch == touch_listener /\ ~onSlide /\ tap
        p == IF onSlide THEN ori_pos + slide_boost
             ELSE IF onTouch THEN ori_pos + touch_boost
             ELSE ori_pos
        boost == IF onSlide THEN "slide" ELSE IF onTouch THEN "touch" ELSE "none"
    IN  /\ elapsed' = IF onSlide THEN 0 ELSE elapsed
        /\ since_slide' = IF touch_listener /\ slide THEN 0 ELSE since_slide
        /\ IF PerValid(per)
           THEN LET i == pos_clamp(p, Len(table), per) IN
                /\ pool' = gov \o <<[node |-> "scaling_max_freq",
                                     value |-> ToString(as_khz(table[i + 1]))]>>
                /\ cur_cycles' = table[i + 1]
                /\ panicked' = "no"
                /\ wr' = [ori |-> ori_pos, boost |-> boost, per |-> per, idx |-> <<i>>]
           ELSE /\ pool' = gov
                /\ cur_cycles' = cur_cycles
                /\ panicked' = "max_freq_per"
                /\ wr' = [ori |-> ori_pos, boost |-> boost, per |-> per, idx |-> <<>>]

\* status() of the touch listener and the max_freq_per node are read per call:
\* the slide flag only with a listener, the tap flag only off the slide branch.
SlideIn == IF touch_listener THEN BOOLEAN ELSE {FALSE}
TapIn(slide) ==
    IF touch_listener /\ ~slide /\ elapsed > SlideTimer THEN BOOLEAN ELSE {FALSE}

write(sm, gov) ==
    \E slide \in SlideIn, per \in Pers :
        \E tap \in TapIn(slide) : write_with(sm, gov, slide, tap, per)

(***************************************************************************)
(* Schedule::reset                                                         *)
(***************************************************************************)
reset(gov) ==
    /\ burst' = 0
    /\ pos' = Len(table) - 1
    /\ smooth' = SMA_new(SMOOTH_COUNT, Len(table) - 1)
    /\ write(smooth', gov)

(***************************************************************************)
(* Schedule::init: the governor write, then reset.                         *)
(***************************************************************************)
GovernorWrite == <<[node |-> "scaling_governor", value |-> "performance"]>>

init ==
    /\ panicked = "no"
    /\ reset(GovernorWrite)
    /\ lastOp' = "init"
    /\ diff_arg' = <<>>
    /\ hist' = <<hist[2], "reset">>
    /\ streak' = [kind |-> "none", n |-> 0]
    /\ UNCHANGED <<raw_freqs, table, touch_listener, target_diff, config>>

\* The governor write fails and init's unwrap panics before reset.
init_fail ==
    /\ panicked = "no"
    /\ panicked' = "scaling_governor"
    /\ pool' = <<>>
    /\ lastOp' = "init_fail"
    /\ diff_arg' = <<>>
    /\ UNCHANGED <<raw_freqs, table, pos, burst, smooth, touch_listener, elapsed,
                   target_diff, cur_cycles, config, hist, wr, since_slide, streak>>

(***************************************************************************)
(* Schedule::run                                                           *)
(***************************************************************************)
NegativeDiffOrZero(diff) == diff <= 0
NegativeDiff(diff) == diff < 0

\* Line 96: the acquire load leaves the cell as it was; the clamp of line 97
\* is on the local copy.
TargetStoredBack(t, c) == Min(t, c)
TargetAfterRun(t, c) == t

\* Consecutive comparisons of the same kind, counted up to the table length.
Streak(s, kind, len) ==
    [kind |-> kind, n |-> IF s.kind = kind THEN Min(s.n + 1, len) ELSE 1]

run_noop(diff) ==
    /\ panicked = "no"
    /\ NegativeDiff(diff)
    /\ pool' = <<>>
    /\ lastOp' = "run_noop"
    /\ diff_arg' = <<diff>>
    /\ UNCHANGED <<raw_freqs, table, pos, burst, smooth, touch_listener, elapsed,
                   target_diff, cur_cycles, config, panicked, hist, wr, since_slide,
                   streak>>

\* The assertion of lines 99-102 fails.
run_assert(diff) ==
    /\ panicked = "no"
    /\ ~NegativeDiff(diff)
    /\ EffTarget(target_diff, cur_cycles) < 0
    /\ panicked' = "target_diff"
    /\ pool' = <<>>
    /\ lastOp' = "run_assert"
    /\ diff_arg' = <<diff>>
    /\ UNCHANGED <<raw_freqs, table, pos, burst, smooth, touch_listener, elapsed,
                   target_diff, cur_cycles, config, hist, wr, since_slide, streak>>

run_step(diff) ==
    /\ panicked = "no"
    /\ ~NegativeDiff(diff)
    /\ LET t == EffTarget(target_diff, cur_cycles) IN
        /\ t >= 0
        /\ IF t < diff
           THEN /\ pos' = StepDown(pos)
                /\ burst' = BURST_DEFAULT
                /\ lastOp' = "down"
           ELSE IF t > diff
           THEN /\ pos' = StepUp(pos, burst, Len(table))
                /\ burst' = BurstUp(burst)
                /\ lastOp' = "up"
           ELSE /\ pos' = pos
                /\ burst' = BURST_DEFAULT
                /\ lastOp' = "eq"
    /\ diff_arg' = <<diff>>
    /\ hist' = <<hist[2], lastOp'>>
    /\ streak' = Streak(streak, lastOp', Len(table))
    /\ smooth' = SMA_next(smooth, pos')
    /\ write(smooth', <<>>)
    /\ target_diff' = TargetAfterRun(target_diff, cur_cycles)
    /\ UNCHANGED <<raw_freqs, table, touch_listener, config>>

run(diff) == run_noop(diff) \/ run_assert(diff) \/ run_step(diff)

(***************************************************************************)
(* The environment: the external PID loop stores a target; time passes.    *)
(***************************************************************************)
PidStore(v) ==
    /\ panicked = "no"
    /\ target_diff' = v
    /\ lastOp' = "store"
    /\ diff_arg' = <<>>
    /\ UNCHANGED <<raw_freqs, table, pos, burst, smooth, touch_listener, elapsed,
                   cur_cycles, pool, config, panicked, hist, wr, since_slide, streak>>

Tick ==
    /\ panicked = "no"
    /\ elapsed <= SlideTimer
    /\ elapsed' = elapsed + 1
    /\ since_slide' = Min(since_slide + 1, SlideTimer + 1)
    /\ lastOp' = "tick"
    /\ diff_arg' = <<>>
    /\ UNCHANGED <<raw_freqs, table, pos, burst, smooth, touch_listener,
                   target_diff, cur_cycles, pool, config, panicked, hist, wr, streak>>

(***************************************************************************)
(* Schedule::pos_clamp applied on its own to a requested index and a       *)
(* max_freq_per value: clamp holds the arguments, then the result.         *)
(***************************************************************************)
ClampPers == 0..101

Init_clamp ==
    \E req \in 0..(MaxClampLen - 1 + MaxReqOver), per \in ClampPers :
        clamp = [req |-> req, per |-> per, idx |-> <<>>, done |-> FALSE]

pos_clamp_call ==
    /\ ~clamp.done
    /\ PerValid(clamp.per)
    /\ clamp' = [clamp EXCEPT !.idx = <<pos_clamp(clamp.req, Len(table), clamp.per)>>,
                              !.done = TRUE]
    /\ UNCHANGED schedVars

\* The assertion of line 160 fails.
pos_clamp_assert ==
    /\ ~clamp.done
    /\ ~PerValid(clamp.per)
    /\ clamp' = [clamp EXCEPT !.done = TRUE]
    /\ panicked' = "max_freq_per"
    /\ UNCHANGED <<raw_freqs, table, pos, burst, smooth, touch_listener, elapsed,
                   target_diff, cur_cycles, pool, config, lastOp, diff_arg, hist,
                   wr, since_slide, streak>>

(***************************************************************************)
(* Exact rationals <<num, den>>, den > 0, in lowest terms, for the f64     *)
(* values of the yata filters.                                             *)
(***************************************************************************)
Abs(x) == IF x >= 0 THEN x ELSE -x

RECURSIVE GCD(_, _)
GCD(a, b) == IF b = 0 THEN a ELSE GCD(b, a % b)

RNorm(n, d) == LET g == GCD(Abs(n), d) IN <<n \div g, d \div g>>
RInt(n) == <<n, 1>>
RAdd(x, y) == LET l == (x[2] \div GCD(x[2], y[2])) * y[2]
              IN  RNorm(x[1] * (l \div x[2]) + y[1] * (l \div y[2]), l)
RNeg(x) == <<-x[1], x[2]>>
RSub(x, y) == RAdd(x, RNeg(y))
RMul(x, y) == RNorm(x[1] * y[1], x[2] * y[2])
RRound(x) == RoundDiv(x[1], x[2])

(***************************************************************************)
(* yata EMA, DEMA and SMA, as SpecEma wraps them.                          *)
(***************************************************************************)
\* EMA: alpha = 2 / (length + 1); next: value = (v - value) * alpha + value.
EMA_alpha(length) == RNorm(2, length + 1)
EMA_next(value, v, length) == RAdd(RMul(RSub(v, value), EMA_alpha(length)), value)

\* SMA: the mean of the window after pushing v.
SMA_mean(w) == RNorm(SeqSum(w), Len(w))

FilterTypes == {"EMA", "DEMA", "SMA", "None"}

\* SpecEma::next: the new filter state and the value returned.
SpecEma_next(r, v) ==
    IF r.type = "EMA" THEN
        LET e == EMA_next(r.ema, RInt(v), r.win)
        IN  [state |-> [r EXCEPT !.ema = e], value |-> e]
    ELSE IF r.type = "DEMA" THEN
        LET e == EMA_next(r.ema, RInt(v), r.win)
            d == EMA_next(r.dma, e, r.win)
        IN  [state |-> [r EXCEPT !.ema = e, !.dma = d],
             value |-> RSub(RMul(e, RInt(2)), d)]
    ELSE IF r.type = "SMA" THEN
        LET w == SMA_next(r.sma, v)
        IN  [state |-> [r EXCEPT !.sma = w], value |-> SMA_mean(w)]
    ELSE [state |-> r, value |-> RInt(v)]

(***************************************************************************)
(* DiffReader::new (filter construction) and DiffReader::read_diff.        *)
(***************************************************************************)
RawDiffs == {-64, 0, 64}      \* cycles.as_diff(time, cur_freq), in Hz

Init_reader ==
    \E type \in FilterTypes, win \in 1..MaxWin :
        reader = [type |-> type, win |-> win,
                  ema |-> RInt(0), dma |-> RInt(0), sma |-> SMA_new(win, 0),
                  n |-> 0, out |-> 0]

read_diff(raw) ==
    /\ reader.n < MaxSamples
    /\ LET diff == Max(raw, 0)
           f == SpecEma_next(reader, diff)
       IN  reader' = [f.state EXCEPT !.n = reader.n + 1, !.out = RRound(f.value)]
    /\ UNCHANGED schedVars

(***************************************************************************)
(* mutate_params: gains in units of 10^-6.                                 *)
(***************************************************************************)
ClampGainUpperOnly(x, lo, hi) == IF x > hi THEN hi ELSE x
ClampGain(x, lo, hi) == IF x < lo THEN lo ELSE IF x > hi THEN hi ELSE x

KpDraws == {-100, 0, 99}      \* gen_range(-0.000_1..0.000_1)
KiDraws == {-10, 0, 5}        \* gen_range(-0.000_01..0.000_01)
KdDraws == {-10, 0, 5}        \* gen_range(-0.000_01..0.000_01)
StartGains == {0, 60, 2000}   \* gains handed in, in and out of range

Init_params ==
    \E kp \in StartGains, ki \in StartGains, kd \in StartGains :
        params = [kp |-> kp, ki |-> ki, kd |-> kd, mutated |-> FALSE]

mutate_params(dkp, dki, dkd) ==
    /\ params' = [kp |-> ClampGain(params.kp + dkp, 400, 800),
                  ki |-> ClampGain(params.ki + dki, 15, 80),
                  kd |-> ClampGain(params.kd + dkd, 50, 80),
                  mutated |-> TRUE]
    /\ UNCHANGED schedVars

(***************************************************************************)
(* evaluate_fitness.  Durations are integers in nanoseconds, the score is  *)
(* an exact rational; <<>> is None, <<x>> is Some(x).                      *)
(***************************************************************************)
SecNanos == 1000 * 1000 * 1000
MilliNanos == 1000 * 1000

\* Lines 85-88: the guard that returns None.
TooFewSamplesInclusive(nFrametimes, target_fps, nControl) ==
    nFrametimes <= target_fps * 5 \/ nControl <= 30
TooFewSamples(nFrametimes, target_fps, nControl) ==
    nFrametimes < target_fps * 5 \/ nControl < 30

RECURSIVE SumSqDev(_, _, _)
SumSqDev(frametimes, target_fps, target) ==
    IF frametimes = <<>> THEN 0
    ELSE (Head(frametimes) * target_fps - target) * (Head(frametimes) * target_fps - target)
         + SumSqDev(Tail(frametimes), target_fps, target)

RECURSIVE SumSq(_)
SumSq(s) == IF s = <<>> THEN 0 ELSE Head(s) * Head(s) + SumSq(Tail(s))

\* Lines 94-102: sum / len * -1.0.
FitnessFrametimeSum(sumsq, len) == RInt(-sumsq)
FitnessFrametime(sumsq, len) == RNorm(-sumsq, len)

\* Lines 103-110: sum / len * -1.0 * 0.01.
FitnessControl(sumsq, len) == RNorm(-sumsq, len * 100)

evaluate_fitness(target_fps, frametimes, margin, control_history) ==
    IF target_fps = <<>> THEN <<>>
    ELSE IF TooFewSamples(Len(frametimes), target_fps[1], Len(control_history)) THEN <<>>
    ELSE LET target == SecNanos + margin * MilliNanos
             fitness_frametime ==
                 FitnessFrametime(SumSqDev(frametimes, target_fps[1], target),
                                  Len(frametimes))
             fitness_control ==
                 FitnessControl(SumSq(control_history), Len(control_history))
         IN  <<RAdd(fitness_frametime, fitness_control)>>

\* Inputs: a buffer of m frametimes around the target period, the first one
\* off by e and the others by d nanoseconds; a history of n outputs +c, -c, ...
Frametimes(m, fps, margin, d, e) ==
    [i \in 1..m |-> (SecNanos + margin * MilliNanos) \div fps + (IF i = 1 THEN e ELSE d)]
ControlHistory(n, c) == [i \in 1..n |-> IF i % 2 = 1 THEN c ELSE -c]

FpsIn == {<<>>} \cup {<<f>> : f \in 1..MaxFps}
BufferLens == 0..(5 * MaxFps + 1)
HistLens == {0} \cup ((MaxHist - 2)..MaxHist)
Devs == {0, 2}
FirstDevs == {0, 3}
Margins == {0, 10}

Buffers(fps, margin) ==
    {Frametimes(m, fps, margin, d, e) : m \in BufferLens, d \in Devs, e \in FirstDevs}

Init_fit ==
    \E tf \in FpsIn, margin \in Margins, n \in HistLens :
        LET fps == IF tf = <<>> THEN 1 ELSE tf[1] IN
        \E a \in Buffers(fps, margin), b \in Buffers(fps, margin) :
            fit = [target_fps |-> tf, margin |-> margin,
                   control_history |-> ControlHistory(n, 3),
                   a |-> a, b |-> b, ra |-> <<>>, rb |-> <<>>, done |-> FALSE]

evaluate_fitness_calls ==
    /\ ~fit.done
    /\ fit' = [fit EXCEPT
                 !.ra = evaluate_fitness(fit.target_fps, fit.a, fit.margin,
                                         fit.control_history),
                 !.rb = evaluate_fitness(fit.target_fps, fit.b, fit.margin,
                                         fit.control_history),
                 !.done = TRUE]
    /\ UNCHANGED schedVars

(***************************************************************************)
(* load_pid_params / save_pid_params on the pid_params table.  A row is a  *)
(* record [id, kp, ki, kd]; each SQL statement executes as one step, and   *)
(* a load then reads its three columns from the row the query stepped to.  *)
(***************************************************************************)
Packages == {"com.a", "com.b"}
PidValues == {[kp |-> 1, ki |-> 2, kd |-> 3], [kp |-> 4, ki |-> 5, kd |-> 6]}

\* Lines 58-61: INSERT ... ON CONFLICT(id) DO UPDATE SET kp, ki, kd.
UpsertKpOnly(rows, id, x) ==
    IF \E r \in rows : r.id = id
    THEN {IF r.id = id THEN [r EXCEPT !.kp = x.kp] ELSE r : r \in rows}
    ELSE rows \cup {[id |-> id, kp |-> x.kp, ki |-> x.ki, kd |-> x.kd]}
Upsert(rows, id, x) ==
    IF \E r \in rows : r.id = id
    THEN {IF r.id = id THEN [r EXCEPT !.kp = x.kp, !.ki = x.ki, !.kd = x.kd] ELSE r
          : r \in rows}
    ELSE rows \cup {[id |-> id, kp |-> x.kp, ki |-> x.ki, kd |-> x.kd]}

\* Lines 46-48: row.get(i) reads column i of the row the statement stepped to.
RowGetLive(row, rows, col) == (CHOOSE r \in rows : r.id = row.id)[col]
RowGet(row, rows, col) == row[col]

Init_db ==
    /\ db = {}
    /\ ld = [pc |-> "idle"]
    /\ log = [p \in Packages |-> [last |-> <<>>, all |-> {}, seen |-> {}]]

\* log[p].seen: what was stored for p at some moment of the load in progress.
save_pid_params(package_name, pid_params) ==
    /\ db' = Upsert(db, package_name, pid_params)
    /\ log' = [log EXCEPT ![package_name] =
                 [last |-> <<pid_params>>,
                  all |-> @.all \cup {pid_params},
                  seen |-> IF ld.pc \in {"idle", "done"} \/ ld.package_name # package_name
                           THEN @.seen ELSE @.seen \cup {<<pid_params>>}]]
    /\ UNCHANGED ld

\* Line 42: conn.prepare.
load_prepare(package_name) ==
    /\ ld.pc = "idle"
    /\ ld' = [pc |-> "prepared", package_name |-> package_name]
    /\ log' = [log EXCEPT ![package_name].seen = {log[package_name].last}]
    /\ UNCHANGED db

\* Lines 44-50: query_row steps to the first row, or fails with
\* QueryReturnedNoRows (result <<>>; <<x>> is Ok(x)).
load_query_row ==
    /\ ld.pc = "prepared"
    /\ IF \E r \in db : r.id = ld.package_name
       THEN ld' = [pc |-> "kp", package_name |-> ld.package_name,
                   row |-> CHOOSE r \in db : r.id = ld.package_name]
       ELSE ld' = [pc |-> "done", package_name |-> ld.package_name,
                   result |-> <<>>]
    /\ UNCHANGED <<db, log>>

load_get_kp ==
    /\ ld.pc = "kp"
    /\ ld' = [pc |-> "ki", package_name |-> ld.package_name, row |-> ld.row,
              kp |-> RowGet(ld.row, db, "kp")]
    /\ UNCHANGED <<db, log>>

load_get_ki ==
    /\ ld.pc = "ki"
    /\ ld' = [pc |-> "kd", package_name |-> ld.package_name, row |-> ld.row,
              kp |-> ld.kp, ki |-> RowGet(ld.row, db, "ki")]
    /\ UNCHANGED <<db, log>>

load_get_kd ==
    /\ ld.pc = "kd"
    /\ ld' = [pc |-> "done", package_name |-> ld.package_name,
              result |-> <<[kp |-> ld.kp, ki |-> ld.ki, kd |-> RowGet(ld.row, db, "kd")]>>]
    /\ UNCHANGED <<db, log>>

load_return ==
    /\ ld.pc = "done"
    /\ ld' = [pc |-> "idle"]
    /\ UNCHANGED <<db, log>>

load_pid_params ==
    \/ \E p \in Packages : load_prepare(p)
    \/ load_query_row
    \/ load_get_kp
    \/ load_get_ki
    \/ load_get_kd
    \/ load_return

(***************************************************************************)
(* Specifications.                                                         *)
(***************************************************************************)
Idle_clamp == clamp = <<>>
Idle_reader == reader = <<>>
Idle_params == params = <<>>
Idle_fit == fit = <<>>
Idle_db == db = {} /\ ld = <<>> /\ log = <<>>

\* The scheduler of one cluster with its environment.
Init == new(RawTables(MaxLen)) /\ Idle_clamp /\ Idle_reader /\ Idle_params /\ Idle_fit /\ Idle_db

Next ==
    \/ init /\ UNCHANGED <<clamp, reader, params, fit, dbVars>>
    \/ init_fail /\ UNCHANGED <<clamp, reader, params, fit, dbVars>>
    \/ \E diff \in Diffs : run_noop(diff) /\ UNCHANGED <<clamp, reader, params, fit, dbVars>>
    \/ \E diff \in Diffs : run_assert(diff) /\ UNCHANGED <<clamp, reader, params, fit, dbVars>>
    \/ \E diff \in Diffs : run_step(diff) /\ UNCHANGED <<clamp, reader, params, fit, dbVars>>
    \/ \E v \in Targets : PidStore(v) /\ UNCHANGED <<clamp, reader, params, fit, dbVars>>
    \/ Tick /\ UNCHANGED <<clamp, reader, params, fit, dbVars>>

Spec == Init /\ [][Next]_vars

\* pos_clamp on every table, requested index and percentage.
InitClamp ==
    new(RawTables(MaxClampLen)) /\ Init_clamp /\ Idle_reader /\ Idle_params /\ Idle_fit /\ Idle_db

NextClamp ==
    \/ pos_clamp_call /\ UNCHANGED <<reader, params, fit, dbVars>>
    \/ pos_clamp_assert /\ UNCHANGED <<reader, params, fit, dbVars>>

SpecClamp == InitClamp /\ [][NextClamp]_vars

\* A DiffReader sampling.
InitDiff == new({DescFreqs(1)}) /\ Idle_clamp /\ Init_reader /\ Idle_params /\ Idle_fit /\ Idle_db

NextDiff == \E raw \in RawDiffs : read_diff(raw) /\ UNCHANGED <<clamp, params, fit, dbVars>>

SpecDiff == InitDiff /\ [][NextDiff]_vars

\* Repeated mutation of PID gains.
InitEvo == new({DescFreqs(1)}) /\ Idle_clamp /\ Idle_reader /\ Init_params /\ Idle_fit /\ Idle_db

NextEvo ==
    \E dkp \in KpDraws, dki \in KiDraws, dkd \in KdDraws :
        mutate_params(dkp, dki, dkd) /\ UNCHANGED <<clamp, reader, fit, dbVars>>

SpecEvo == InitEvo /\ [][NextEvo]_vars

\* evaluate_fitness on pairs of frame-time buffers.
InitFit == new({DescFreqs(1)}) /\ Idle_clamp /\ Idle_reader /\ Idle_params /\ Init_fit /\ Idle_db

NextFit == evaluate_fitness_calls /\ UNCHANGED <<clamp, reader, params, dbVars>>

SpecFit == InitFit /\ [][NextFit]_vars

\* Saves and a load on the pid_params table, interleaved statement by statement.
InitDb == new({DescFreqs(1)}) /\ Idle_clamp /\ Idle_reader /\ Idle_params /\ Idle_fit /\ Init_db

NextDb ==
    \/ (\E p \in Packages, x \in PidValues : save_pid_params(p, x))
           /\ UNCHANGED <<schedVars, clamp, reader, params, fit>>
    \/ load_pid_params /\ UNCHANGED <<schedVars, clamp, reader, params, fit>>

SpecDb == InitDb /\ [][NextDb]_vars

(***************************************************************************)
(* Properties.                                                             *)
(***************************************************************************)
Top == Len(table) - 1

\* The target run() compares with diff, written out from lines 96-97.
TargetClamped == IF target_diff <= cur_cycles THEN target_diff ELSE cur_cycles

RunKinds == {"down", "up", "eq"}

\* C1: after construction and any sequence of init() and run(diff) calls,
\* for any diff, target_diff and table of length >= 1, the raw position
\* satisfies 0 <= position <= len(table) - 1.
C1_PositionInTable == pos >= 0 /\ pos <= Len(table) - 1

\* Three up steps in a row from below the top have run into the cap.
C1_Witness ==
    /\ hist = <<"up", "up">>
    /\ Len(table) >= 3
    /\ pos = Len(table) - 1
    /\ smooth[1] < pos

\* C2: burst stays within [0, BURST_MAX], and equals BURST_MAX only when the
\* two latest state-changing steps were both headroom (up) steps, with no
\* step-down, equal step or reset between them.
C2_BurstBounded ==
    /\ burst >= 0
    /\ burst <= 2
    /\ (burst = 2 => hist[1] = "up" /\ hist[2] = "up")

C2_Witness == burst = 2 /\ lastOp = "up"

\* C3: a run(diff) call whose effective target is above diff raises the
\* position by the burst it found, capped at the top of the table, and then
\* raises burst by one, capped at BURST_MAX; from burst 0 below the top the
\* first such call holds the position with burst 1, the next raises it by
\* one with burst 2.
C3_StepUpByBurst ==
    [][\A d \in Diffs :
          (diff_arg' = <<d>> /\ d >= 0 /\ TargetClamped > d) =>
              /\ lastOp' = "up"
              /\ pos' = (IF pos + burst > Top THEN Top ELSE pos + burst)
              /\ burst' = (IF burst >= 2 THEN 2 ELSE burst + 1)
              /\ (burst = 0 /\ pos < Top => pos' = pos /\ burst' = 1)
              /\ (burst = 1 /\ pos < Top => pos' = pos + 1 /\ burst' = 2)]_vars

\* The second of two up steps from burst 0 has raised the position by one.
C3_Witness ==
    /\ lastOp = "up"
    /\ hist = <<"up", "up">>
    /\ burst = 2
    /\ smooth[2] = smooth[1] + 1

\* C4: a run(diff) call whose effective target is below diff lowers the
\* position by exactly one (it stays 0 at 0) and resets burst to 0 whatever
\* it was; when the effective target equals diff the position is held and
\* burst is reset to 0.  (A call whose effective target is negative fails
\* the assertion before the comparison and has no result.)
C4_StepDownOrHold ==
    [][\A d \in Diffs :
          (diff_arg' = <<d>> /\ d >= 0 /\ TargetClamped >= 0) =>
              /\ (TargetClamped < d =>
                     /\ lastOp' = "down"
                     /\ pos' = (IF pos = 0 THEN 0 ELSE pos - 1)
                     /\ burst' = 0)
              /\ (TargetClamped = d =>
                     /\ lastOp' = "eq"
                     /\ pos' = pos
                     /\ burst' = 0)]_vars

\* A step down right after an up step: burst was positive and is 0 again.
C4_Witness ==
    /\ lastOp = "down"
    /\ hist = <<"up", "down">>
    /\ smooth[2] = smooth[1] - 1
    /\ burst = 0

\* C5 as stated: in every reachable state the shared target_diff satisfies
\* 0 <= target_diff <= cur_cycles, whatever the external PID loop stores.
C5_SharedTargetInRange == target_diff >= 0 /\ target_diff <= cur_cycles

\* C5 amended: only the value run() works with, the shared target_diff
\* clamped to cur_cycles, is bounded: it never exceeds cur_cycles, and it is
\* >= 0 in every call that gets past the assertion (a negative one panics
\* the call before position or burst change); no run() stores to the shared
\* cell, which keeps what the PID loop stored.
C5_EffectiveTargetInRange ==
    [][\A d \in Diffs :
          (diff_arg' = <<d>> /\ d >= 0) =>
              /\ EffTarget(target_diff, cur_cycles) <= cur_cycles
              /\ (lastOp' \in RunKinds => EffTarget(target_diff, cur_cycles) >= 0)
              /\ (EffTarget(target_diff, cur_cycles) < 0 =>
                     panicked' = "target_diff" /\ pos' = pos /\ burst' = burst)
              /\ (lastOp' = "up" <=> EffTarget(target_diff, cur_cycles) > d)
              /\ target_diff' = target_diff]_vars

\* A run has completed although the shared target lies above cur_cycles.
C5_Witness ==
    /\ lastOp \in RunKinds
    /\ panicked = "no"
    /\ target_diff = from_mhz(1000)
    /\ target_diff > cur_cycles

\* C7: a max_freq_per above 100 read during write() is fatal: the call
\* panics before a clamped index exists, submits no scaling_max_freq write
\* and leaves cur_cycles as it was.
C7_PercentageRejected ==
    [][\A slide \in BOOLEAN, tap \in BOOLEAN, per \in Pers :
          (/\ per > 100
           /\ panicked = "no"
           /\ lastOp' \in RunKinds \cup {"init"}
           /\ \/ write_with(smooth', <<>>, slide, tap, per)
              \/ write_with(smooth', GovernorWrite, slide, tap, per)) =>
              /\ panicked' = "max_freq_per"
              /\ cur_cycles' = cur_cycles
              /\ \A k \in 1..Len(pool') : pool'[k].node # "scaling_max_freq"]_vars

\* A run moved the position, and its write() was rejected.
C7_Witness ==
    /\ panicked = "max_freq_per"
    /\ lastOp = "down"
    /\ pool = <<>>
    /\ cur_cycles = table[Len(table)]

\* C9 as stated: for every list of reported frequencies the table is
\* strictly ascending.
C9_StrictlyAscending == \A i \in 1..(Len(table) - 1) : table[i] < table[i + 1]

Count(seq, v) == Cardinality({i \in 1..Len(seq) : seq[i] = v})

\* C9 amended: the table is the ascending rearrangement of the reported
\* frequencies (each value as often as reported, table[i] <= table[i+1]),
\* strictly ascending exactly when no frequency is reported twice, and
\* init(), run() and write() never change it.
C9_AscendingRearrangement ==
    /\ Len(table) = Len(raw_freqs)
    /\ \A i \in 1..Len(raw_freqs) :
           Count(table, raw_freqs[i] * 1000) = Count(raw_freqs, raw_freqs[i])
    /\ \A i \in 1..(Len(table) - 1) : table[i] <= table[i + 1]
    /\ (C9_StrictlyAscending <=>
           \A i, j \in 1..Len(raw_freqs) : i # j => raw_freqs[i] # raw_freqs[j])

\* A table with a repeated frequency, after the scheduler has run.
C9_Witness ==
    /\ lastOp \in RunKinds
    /\ \E i \in 1..(Len(table) - 1) : table[i] = table[i + 1]
    /\ raw_freqs # table

\* C6: for every table length >= 1, requested index and max_freq_per in
\* 0..100, pos_clamp returns min(requested, m), m being (len-1)*per/100
\* rounded with halves away from zero; for 100 only len-1 limits the index;
\* for 50 and length 5 a requested 4 becomes 2.
C6_PosClamp ==
    (clamp.done /\ clamp.per <= 100) =>
        LET len1 == Len(table) - 1
            m == CHOOSE k \in 0..len1 :
                     100 * k - 50 <= len1 * clamp.per /\ len1 * clamp.per < 100 * k + 50
            i == clamp.idx[1]
        IN  /\ Len(clamp.idx) = 1
            /\ i = (IF clamp.req < m THEN clamp.req ELSE m)
            /\ i <= m
            /\ (clamp.per = 100 => i = (IF clamp.req < len1 THEN clamp.req ELSE len1))
            /\ (clamp.per = 50 /\ len1 = 4 /\ clamp.req = 4 => i = 2)

\* The scenario: 50 percent of a table of length 5, index 4 requested.
C6_Witness ==
    /\ clamp.done
    /\ Len(table) = 5
    /\ clamp.per = 50
    /\ clamp.req = 4
    /\ clamp.idx = <<2>>

\* C8: with the raw diff clamped to >= 0 at the source, read_diff returns a
\* value >= 0 for every filter type and window.
C8_DiffNonNegative == reader.out >= 0

\* C10: after any number of mutate() applications from any starting gains,
\* kp lies in [0.0004, 0.0008], ki in [0.000015, 0.00008] and kd in
\* [0.00005, 0.00008].
C10_GainsInRange ==
    params.mutated =>
        /\ 400 <= params.kp /\ params.kp <= 800
        /\ 15 <= params.ki /\ params.ki <= 80
        /\ 50 <= params.kd /\ params.kd <= 80

\* Gains that came in out of range sit on their bounds after mutation.
C10_Witness ==
    /\ params.mutated
    /\ params.kp = 800
    /\ params.ki = 15
    /\ params.kd = 50

\* C11: evaluate_fitness returns a score exactly when the target fps is
\* known, the buffer holds at least 5 x targetFps frametimes and the control
\* history at least 30 outputs; otherwise it returns nothing.
C11_ScoreIffEnoughData ==
    fit.done =>
        /\ (fit.ra # <<>>) <=>
               /\ fit.target_fps # <<>>
               /\ Len(fit.a) >= 5 * fit.target_fps[1]
               /\ Len(fit.control_history) >= 30
        /\ (fit.rb # <<>>) <=>
               /\ fit.target_fps # <<>>
               /\ Len(fit.b) >= 5 * fit.target_fps[1]
               /\ Len(fit.control_history) >= 30

\* Exactly at both thresholds a score is returned.
C11_Witness ==
    /\ fit.done
    /\ fit.target_fps = <<2>>
    /\ Len(fit.a) = 10
    /\ Len(fit.control_history) = 30
    /\ fit.ra # <<>>
    /\ Len(fit.b) = 9
    /\ fit.rb = <<>>

\* Sum over a buffer of the squared deviation of frametime x fps from 1 s + margin.
RECURSIVE DevSq(_, _, _)
DevSq(buf, fps, period) ==
    IF buf = <<>> THEN 0
    ELSE LET dev == Head(buf) * fps - period IN dev * dev + DevSq(Tail(buf), fps, period)

Stored(p) == {r \in db : r.id = p}
Triple(r) == [kp |-> r.kp, ki |-> r.ki, kd |-> r.kd]

\* C13: the table holds for each package exactly the triple of its most
\* recent save and nothing for a package never saved; a save leaves the rows
\* of every other package alone; a load that no save overlaps returns the
\* most recent triple, or the not-found error when the package was never saved.
C13_LoadReturnsLastSave ==
    [][/\ \A p \in Packages :
             /\ log'[p].last = <<>> => Stored(p)' = {}
             /\ log'[p].last # <<>> =>
                    /\ Cardinality(Stored(p)') = 1
                    /\ \A r \in Stored(p)' : Triple(r) = log'[p].last[1]
             /\ log'[p].last = log[p].last => Stored(p)' = Stored(p)
       /\ (ld.pc # "done" /\ ld'.pc = "done"
              /\ Cardinality(log'[ld'.package_name].seen) = 1) =>
             ld'.result = log'[ld'.package_name].last
      ]_vars

\* A load returns the second triple saved for a package while the other
\* package keeps its own.
C13_Witness ==
    /\ ld.pc = "done"
    /\ ld.package_name = "com.a"
    /\ ld.result = <<[kp |-> 4, ki |-> 5, kd |-> 6]>>
    /\ log["com.a"].all = PidValues
    /\ Cardinality(log["com.a"].seen) = 1
    /\ log["com.b"].last = <<[kp |-> 1, ki |-> 2, kd |-> 3]>>
    /\ Cardinality(Stored("com.b")) = 1

\* C14: under every interleaving a finished load returns a complete triple
\* that was stored for its package at some moment of the call (or the
\* not-found error if the package had no row then), never a mix of two
\* saves, and each package's row is always one of the triples saved for it.
C14_LoadSeesWholeTriple ==
    /\ ld.pc = "done" => ld.result \in log[ld.package_name].seen
    /\ \A p \in Packages :
           /\ Cardinality(Stored(p)) <= 1
           /\ \A r \in Stored(p) : Triple(r) \in log[p].all

\* A save to the loaded package lands between the load's column reads.
C14_Witness ==
    /\ ld.pc = "done"
    /\ ld.result # <<>>
    /\ Cardinality(log[ld.package_name].seen) = 2
    /\ log[ld.package_name].last # ld.result

WriteKinds == RunKinds \cup {"init"}

\* C15: no scheduler operation stores to target_diff, and cur_cycles is
\* stored only by a write() that init() or run() performs; target_diff
\* changes only by the external writer's store.
C15_SingleWriter ==
    [][/\ target_diff' # target_diff => lastOp' = "store"
       /\ lastOp' # "store" => target_diff' = target_diff
       /\ cur_cycles' # cur_cycles =>
              /\ lastOp' \in WriteKinds
              /\ pool'[Len(pool')].node = "scaling_max_freq"
              /\ wr'.idx # <<>>
      ]_vars

\* run() has written a lower cur_cycles under a stored target above it.
C15_Witness ==
    /\ lastOp \in RunKinds
    /\ panicked = "no"
    /\ target_diff = from_mhz(1000)
    /\ cur_cycles < table[Len(table)]
    /\ cur_cycles < target_diff
    /\ wr.idx # <<>>

\* C16: write() applies slide_boost exactly when a slide is active at the
\* call or was active within the preceding slide_timer window, else
\* touch_boost when a tap is active, else nothing, and nothing without a
\* touch listener: once no slide has been active for longer than slide_timer
\* a write() no longer applies slide_boost.
C16_SlideBoostOnlyAfterSlide ==
    lastOp \in WriteKinds =>
        /\ wr.boost = "slide" <=> (touch_listener /\ since_slide <= SlideTimer)
        /\ ~touch_listener => wr.boost = "none"

\* C17: after every completed write() cur_cycles is table[i] for the index i
\* whose frequency was submitted to scaling_max_freq, i is a valid index and
\* i <= round(max_freq_per/100 * (len-1)); cur_cycles is always an element
\* of the table.
C17_CurCyclesIsSubmittedEntry ==
    /\ \E k \in 1..Len(table) : cur_cycles = table[k]
    /\ (wr # <<>> /\ wr.idx # <<>>) =>
           LET i == wr.idx[1] IN
           /\ i >= 0 /\ i <= Top
           /\ cur_cycles = table[i + 1]
           /\ 100 * i <= wr.per * Top + 50
    /\ (lastOp \in WriteKinds /\ panicked = "no") =>
           /\ wr.idx # <<>>
           /\ pool[Len(pool)] = [node |-> "scaling_max_freq",
                                 value |-> ToString(cur_cycles \div 1000)]

\* A slide boost on the top position under a 50 % cap.
C17_Witness ==
    /\ lastOp \in RunKinds
    /\ Top = 3
    /\ wr.per = 50
    /\ wr.ori = 3
    /\ wr.boost = "slide"
    /\ wr.idx = <<2>>
    /\ cur_cycles = table[3]

\* C18: run(diff) with diff < 0 changes neither position, burst, smoothing
\* window, slide timer nor cur_cycles and submits nothing; run(diff) with
\* diff >= 0 and a non-negative effective target shifts the new position into
\* the smoothing window and performs one write(): one scaling_max_freq
\* submission, or the max_freq_per panic inside it.
C18_NegativeDiffNoop ==
    [][\A d \in Diffs :
          diff_arg' = <<d>> =>
              IF d < 0
              THEN /\ lastOp' = "run_noop"
                   /\ pool' = <<>>
                   /\ UNCHANGED <<pos, burst, smooth, elapsed, cur_cycles, table,
                                  target_diff, panicked, wr>>
              ELSE TargetClamped >= 0 =>
                       /\ lastOp' \in RunKinds
                       /\ smooth' = <<smooth[2], pos'>>
                       /\ \/ /\ panicked' = "no"
                             /\ Len(pool') = 1
                             /\ pool'[1].node = "scaling_max_freq"
                          \/ /\ panicked' = "max_freq_per"
                             /\ pool' = <<>>
      ]_vars

\* run(-1) arrives after two step-downs, with the slide timer running.
C18_Witness ==
    /\ lastOp = "run_noop"
    /\ diff_arg = <<-1>>
    /\ hist = <<"down", "down">>
    /\ smooth[1] # smooth[2]
    /\ elapsed > 0
    /\ pool = <<>>

\* C19: the index write() starts from is the mean of the previous and the
\* current raw position, halves rounded away from zero, within the table:
\* from a steady position p >= 1 one step-down still gives p, the second
\* in a row gives p-1, and a step-up of 1 gives p+1 at once.
C19_SmoothedIndex ==
    [][/\ lastOp' = "init" => wr'.ori = Top
       /\ lastOp' \in RunKinds =>
              /\ smooth[2] = pos
              /\ 2 * wr'.ori - 1 <= pos + pos'
              /\ pos + pos' <= 2 * wr'.ori
              /\ (smooth = <<pos, pos>> /\ pos >= 1 /\ lastOp' = "down") =>
                     wr'.ori = pos
              /\ (smooth = <<pos + 1, pos>> /\ lastOp' = "down") =>
                     wr'.ori = pos
              /\ (smooth = <<pos, pos>> /\ pos' = pos + 1) => wr'.ori = pos + 1
      ]_vars

\* The second step-down in a row from a steady top position 3 gives index 2.
C19_Witness ==
    /\ Top = 3
    /\ hist = <<"down", "down">>
    /\ smooth = <<2, 1>>
    /\ wr.ori = 2
    /\ lastOp = "down"

\* C20: after len-1 run() comparisons in a row with effective target < diff
\* the position is 0, and after (len+3)/2 (rounded up) in a row with
\* effective target > diff (raw steps 0, 1, 2, 2, ...) it is len-1; it stays
\* there while the comparisons keep their direction.
C20_Converges ==
    /\ (streak.kind = "down" /\ streak.n >= Top) => pos = 0
    /\ (streak.kind = "up" /\ 2 * streak.n >= Top + 3) => pos = Top

\* Three step-ups in a row from position 0 reach the top of a four-entry table.
C20_Witness ==
    /\ Top = 3
    /\ streak = [kind |-> "up", n |-> 3]
    /\ smooth = <<1, 3>>
    /\ pos = Top

====
